---- MODULE Spec2Model ----
(***************************************************************************)
(* Model of blackhole.c: the per-frame main loop (UpdateSimulation, key    *)
(* handling, the Lensed and Direct render paths), the time-dilation        *)
(* function and the two fragment shaders.                                  *)
(*                                                                         *)
(* float values are fixed-point integers.  Lengths and positions are in    *)
(* hundredths of a world unit (Unit), dimensionless factors and seconds in *)
(* ten-thousandths (One).  sqrtf and divisions round toward zero.          *)
(***************************************************************************)
EXTENDS Integers, Sequences, FiniteSets, TLC

VARIABLES
  sim,      \* SimulationState sim (main)
  gpu,      \* uniform values held by the two shader programs
  trace,    \* the rendering calls of the last frame drawn, in call order
  upd,      \* history: the last UpdateSimulation call (inputs and result)
  run,      \* history: the current run of UpdateSimulation calls with showTimeEffects off
  twin,     \* history: sim of the same run of frames with KEY_L never pressed
  keys,     \* history: the keys reported pressed / down in the last frame
  frames,   \* number of freely chosen frames so far
  held,     \* number of frames spent holding KEY_W before them
  probe     \* the last evaluation of a pure function (shaders, time dilation)

vars == <<sim, gpu, trace, upd, run, twin, keys, frames, held, probe>>

-----------------------------------------------------------------------------
(* Bounds of the exploration *)

\* freely chosen frames explored after the optional approach
MaxFrames == 3
\* longest approach: frames with only KEY_W held, from the initial state
MaxHold == 59
\* stars of the star field (MAX_STARS of the program is 1000)
MAX_STARS == 2
\* frames explored from each of the star fields
MaxSceneFrames == 1
\* time-dilation probes: distances up to MaxDistance half units
MaxDistance == 80
\* disk-shader probes: world points up to DiskGrid steps of 0.4 from the centre
DiskGrid == 52

-----------------------------------------------------------------------------
(* Fixed-point arithmetic *)

Unit == 100
One == 10000

\* C-style quotient, rounding toward zero (b > 0)
Div(a, b) == IF a >= 0 THEN a \div b ELSE -((-a) \div b)

RECURSIVE SqrtSearch(_, _, _)
SqrtSearch(n, lo, hi) ==
  IF hi - lo <= 1 THEN lo
  ELSE LET mid == (lo + hi) \div 2
       IN IF mid * mid <= n THEN SqrtSearch(n, mid, hi)
                            ELSE SqrtSearch(n, lo, mid)

\* largest r with r * r <= n
ISqrt(n) == SqrtSearch(n, 0, (IF n < 46340 THEN n ELSE 46340) + 1)

\* sqrtf of a dimensionless value
Sqrtf(x) == ISqrt(x * One)

-----------------------------------------------------------------------------
(* raymath *)

Vector3Add(a, b) == <<a[1] + b[1], a[2] + b[2], a[3] + b[3]>>
Vector3Subtract(a, b) == <<a[1] - b[1], a[2] - b[2], a[3] - b[3]>>
Vector3Length(v) == ISqrt(v[1] * v[1] + v[2] * v[2] + v[3] * v[3])
Vector3Distance(a, b) == Vector3Length(Vector3Subtract(a, b))

\* the zero vector is returned unchanged
Vector3Normalize(v) ==
  LET length == Vector3Length(v)
  IN IF length = 0 THEN v
     ELSE <<Div(v[1] * Unit, length), Div(v[2] * Unit, length), Div(v[3] * Unit, length)>>

\* scale by the fraction num / den
Vector3Scale(v, num, den) == <<Div(v[1] * num, den), Div(v[2] * num, den), Div(v[3] * num, den)>>

\* the second operand is a direction with integer components (camera.up)
Vector3CrossProduct(a, b) ==
  <<a[2] * b[3] - a[3] * b[2], a[3] * b[1] - a[1] * b[3], a[1] * b[2] - a[2] * b[1]>>

-----------------------------------------------------------------------------
(* Program constants *)

SCREEN_WIDTH == 1024
SCREEN_HEIGHT == 768

\* GetFrameTime(): a frame at 60 or at 30 frames per second, in 1/One s
FrameTimes == {167, 333}

AllKeys == {"L", "O", "T", "W", "S", "A", "D"}

DiskUniformNames ==
  {"time", "blackHolePos", "innerRadius", "outerRadius", "hotColor", "coolColor"}

-----------------------------------------------------------------------------
(* InitSimulation *)

\* brightness = GetRandomValue(50, 255) / 255.0f; colour channel = (unsigned char)(brightness * 255)
MakeStar(pos, raw) ==
  LET brightness == Div(raw * One, 255)
      c == Div(brightness * 255, One)
  IN [position |-> pos, brightness |-> brightness, color |-> <<c, c, c, 255>>]

InitSimulation(stars) ==
  LET blackHole == [position |-> <<0, 0, 0>>,
                    mass |-> 1 * Unit,
                    schwarzschildRadius |-> 2 * Unit,
                    iscoRadius |-> 6 * Unit]
  IN [camera |-> [position |-> <<0, 5 * Unit, 30 * Unit>>,
                  target |-> <<0, 0, 0>>,
                  up |-> <<0, 1, 0>>,
                  fovy |-> 45,
                  projection |-> "CAMERA_PERSPECTIVE"],
      blackHole |-> blackHole,
      disk |-> [innerRadius |-> blackHole.iscoRadius,
                outerRadius |-> 20 * Unit,
                rotationSpeed |-> One,
                temperature |-> 0,
                hotColor |-> <<255, 200, 50, 255>>,
                coolColor |-> <<200, 50, 25, 255>>],
      stars |-> stars,
      time |-> 0,
      timeDilation |-> One,
      showLensing |-> TRUE,
      showDisk |-> TRUE,
      showTimeEffects |-> TRUE]

-----------------------------------------------------------------------------
(* CalculateTimeDilation, UpdateSimulation *)

\* mutant: the two clamps are missing, so a negative factor is passed on
CalculateTimeDilationUnclamped(position, bh) ==
  LET distance == Vector3Distance(position, bh.position)
      rs == bh.schwarzschildRadius
  IN IF distance = 0 THEN 0
     ELSE LET factor == One - Div(rs * One, distance)
          IN IF factor <= 0 THEN factor ELSE Sqrtf(factor)

\* mutant: the factor is returned without taking its square root
CalculateTimeDilationNoSqrt(position, bh) ==
  LET distance == Vector3Distance(position, bh.position)
      rs == bh.schwarzschildRadius
  IN IF distance <= rs THEN 0
     ELSE LET factor == One - Div(rs * One, distance)
          IN IF factor <= 0 THEN 0 ELSE factor

CalculateTimeDilation(position, bh) ==
  LET distance == Vector3Distance(position, bh.position)
      rs == bh.schwarzschildRadius
  IN IF distance <= rs THEN 0
     ELSE LET factor == One - Div(rs * One, distance)
          IN IF factor <= 0 THEN 0 ELSE Sqrtf(factor)

\* mutant: the frame time is scaled but the factor is not stored
UpdateSimulationNotStored(s, frameTime) ==
  IF s.showTimeEffects
  THEN LET td == CalculateTimeDilation(s.camera.position, s.blackHole)
       IN [s EXCEPT !.time = @ + Div(frameTime * td, One)]
  ELSE [s EXCEPT !.time = @ + frameTime]

\* mutant: the frame time is scaled whatever showTimeEffects is
UpdateSimulationAlwaysScaled(s, frameTime) ==
  LET td == CalculateTimeDilation(s.camera.position, s.blackHole)
  IN [s EXCEPT !.timeDilation = IF s.showTimeEffects THEN td ELSE @,
               !.time = @ + Div(frameTime * td, One)]

UpdateSimulation(s, frameTime) ==
  IF s.showTimeEffects
  THEN LET td == CalculateTimeDilation(s.camera.position, s.blackHole)
           deltaTime == Div(frameTime * td, One)
       IN [s EXCEPT !.timeDilation = td, !.time = @ + deltaTime]
  ELSE [s EXCEPT !.time = @ + frameTime]

-----------------------------------------------------------------------------
(* Key handling of the main loop *)

\* mutant: KEY_L flips showDisk as well
ToggleLensAndDisk(s, ks) ==
  [s EXCEPT !.showLensing = IF "L" \in ks THEN ~@ ELSE @,
            !.showDisk = IF ("O" \in ks) # ("L" \in ks) THEN ~@ ELSE @,
            !.showTimeEffects = IF "T" \in ks THEN ~@ ELSE @]

Toggle(s, ks) ==
  [s EXCEPT !.showLensing = IF "L" \in ks THEN ~@ ELSE @,
            !.showDisk = IF "O" \in ks THEN ~@ ELSE @,
            !.showTimeEffects = IF "T" \in ks THEN ~@ ELSE @]

MoveForward(s) ==
  LET forward == Vector3Scale(Vector3Normalize(
                   Vector3Subtract(s.camera.target, s.camera.position)), 1, 2)
  IN [s EXCEPT !.camera.position = Vector3Add(@, forward)]

MoveBackward(s) ==
  LET backward == Vector3Scale(Vector3Normalize(
                    Vector3Subtract(s.camera.position, s.camera.target)), 1, 2)
  IN [s EXCEPT !.camera.position = Vector3Add(@, backward)]

Strafe(s, num) ==
  LET right == Vector3Scale(Vector3Normalize(Vector3CrossProduct(
                 Vector3Subtract(s.camera.target, s.camera.position), s.camera.up)), num, 2)
  IN [s EXCEPT !.camera.position = Vector3Add(@, right)]

HandleKeys(s, ks) ==
  LET s0 == Toggle(s, ks)
      s1 == IF "W" \in ks THEN MoveForward(s0) ELSE s0
      s2 == IF "S" \in ks THEN MoveBackward(s1) ELSE s1
      s3 == IF "A" \in ks THEN Strafe(s2, -1) ELSE s2
  IN IF "D" \in ks THEN Strafe(s3, 1) ELSE s3

-----------------------------------------------------------------------------
(* Rendering: every raylib call of a frame is one entry of the trace *)

Op(name, arg) == [op |-> name, arg |-> arg]

\* uniform values of a freshly linked program: all zero
InitGpu ==
  [disk |-> [time |-> 0, blackHolePos |-> <<0, 0, 0>>, innerRadius |-> 0,
             outerRadius |-> 0, hotColor |-> <<0, 0, 0>>, coolColor |-> <<0, 0, 0>>],
   lens |-> [lensCenter |-> <<0, 0>>, lensStrength |-> 0, screenSize |-> <<0, 0>>]]

RECURSIVE DrawStarsFrom(_, _)
DrawStarsFrom(s, i) ==
  IF i > MAX_STARS THEN <<>>
  ELSE LET pos == s.stars[i].position
           distance == Vector3Distance(pos, s.blackHole.position)
           rest == DrawStarsFrom(s, i + 1)
       IN IF distance > s.blackHole.schwarzschildRadius * 2
          THEN <<Op("DrawCube", [star |-> i, position |-> pos, color |-> s.stars[i].color])>>
               \o rest
          ELSE rest

RECURSIVE DrawStarsInclusiveFrom(_, _)
DrawStarsInclusiveFrom(s, i) ==
  IF i > MAX_STARS THEN <<>>
  ELSE LET pos == s.stars[i].position
           distance == Vector3Distance(pos, s.blackHole.position)
           rest == DrawStarsInclusiveFrom(s, i + 1)
       IN IF distance >= s.blackHole.schwarzschildRadius * 2
          THEN <<Op("DrawCube", [star |-> i, position |-> pos, color |-> s.stars[i].color])>>
               \o rest
          ELSE rest

\* mutant: a star at exactly twice the Schwarzschild radius is drawn too
DrawStarfieldInclusive(s) == DrawStarsInclusiveFrom(s, 1)

DrawStarfield(s) == DrawStarsFrom(s, 1)

\* the draw call carries the uniform values the disk program holds when it runs
DrawAccretionDisk(s, g) ==
  <<Op("BeginShaderMode", "diskShader"),
    Op("DrawCylinderEx",
       [startPos |-> Vector3Add(s.blackHole.position, <<0, -(Unit \div 10), 0>>),
        endPos |-> Vector3Add(s.blackHole.position, <<0, Unit \div 10, 0>>),
        startRadius |-> s.disk.outerRadius,
        endRadius |-> s.disk.innerRadius,
        uniforms |-> g.disk]),
    Op("EndShaderMode", "diskShader")>>

DrawBlackHole(s) ==
  <<Op("DrawSphere", [center |-> s.blackHole.position,
                      radius |-> s.blackHole.schwarzschildRadius]),
    Op("DrawCircle3D", [center |-> s.blackHole.position,
                        radius |-> s.blackHole.iscoRadius])>>

\* SetShaderValue calls of the Direct path (hotColor, coolColor in hundredths)
DiskUniformValues(s) ==
  [time |-> s.time,
   blackHolePos |-> s.blackHole.position,
   innerRadius |-> s.disk.innerRadius,
   outerRadius |-> s.disk.outerRadius,
   hotColor |-> <<Unit, 80, 20>>,
   coolColor |-> <<80, 20, 10>>]

SetDiskUniforms(s) ==
  LET v == DiskUniformValues(s)
  IN <<Op("SetShaderValue", [shader |-> "diskShader", name |-> "time", value |-> v.time]),
       Op("SetShaderValue", [shader |-> "diskShader", name |-> "blackHolePos", value |-> v.blackHolePos]),
       Op("SetShaderValue", [shader |-> "diskShader", name |-> "innerRadius", value |-> v.innerRadius]),
       Op("SetShaderValue", [shader |-> "diskShader", name |-> "outerRadius", value |-> v.outerRadius]),
       Op("SetShaderValue", [shader |-> "diskShader", name |-> "hotColor", value |-> v.hotColor]),
       Op("SetShaderValue", [shader |-> "diskShader", name |-> "coolColor", value |-> v.coolColor])>>

\* lens uniforms in pixels; schwarzschildRadius * 5000.0f
LensUniformValues(s) ==
  [lensCenter |-> <<SCREEN_WIDTH \div 2, SCREEN_HEIGHT \div 2>>,
   lensStrength |-> Div(s.blackHole.schwarzschildRadius * 5000, Unit),
   screenSize |-> <<SCREEN_WIDTH, SCREEN_HEIGHT>>]

SetLensUniforms(s) ==
  LET v == LensUniformValues(s)
  IN <<Op("SetShaderValue", [shader |-> "lensShader", name |-> "lensCenter", value |-> v.lensCenter]),
       Op("SetShaderValue", [shader |-> "lensShader", name |-> "lensStrength", value |-> v.lensStrength]),
       Op("SetShaderValue", [shader |-> "lensShader", name |-> "screenSize", value |-> v.screenSize])>>

DrawUI(s) ==
  <<Op("DrawText", "Black Hole Simulation"),
    Op("DrawText", "L - Toggle Lensing"),
    Op("DrawText", "D - Toggle Accretion Disk"),
    Op("DrawText", "T - Toggle Time Effects"),
    Op("DrawText", "WASD - Move Camera")>>
  \o (IF s.showTimeEffects
      THEN <<Op("DrawText", [label |-> "Time Dilation", value |-> Div(s.timeDilation + 5, 10)])>>
      ELSE <<>>)
  \o <<Op("DrawText", "FPS")>>

LensedPath(s, g) ==
  LET g1 == [g EXCEPT !.lens = LensUniformValues(s)]
  IN [gpu |-> g1,
      ops |-> <<Op("BeginTextureMode", "target"), Op("ClearBackground", "BLACK"),
                Op("BeginMode3D", s.camera.position)>>
              \o DrawStarfield(s)
              \o (IF s.showDisk THEN DrawAccretionDisk(s, g) ELSE <<>>)
              \o DrawBlackHole(s)
              \o <<Op("EndMode3D", "camera"), Op("EndTextureMode", "target")>>
              \o SetLensUniforms(s)
              \o <<Op("BeginShaderMode", "lensShader"),
                   Op("DrawTextureRec",
                      [texture |-> "target",
                       source |-> <<0, 0, SCREEN_WIDTH, -SCREEN_HEIGHT>>,
                       position |-> <<0, 0>>,
                       uniforms |-> g1.lens]),
                   Op("EndShaderMode", "lensShader")>>]

DirectPath(s, g) ==
  LET g1 == IF s.showDisk THEN [g EXCEPT !.disk = DiskUniformValues(s)] ELSE g
  IN [gpu |-> g1,
      ops |-> <<Op("BeginMode3D", s.camera.position)>>
              \o DrawStarfield(s)
              \o (IF s.showDisk THEN SetDiskUniforms(s) \o DrawAccretionDisk(s, g1) ELSE <<>>)
              \o DrawBlackHole(s)
              \o <<Op("EndMode3D", "camera")>>]

\* BeginDrawing() ... EndDrawing() of one loop iteration
Draw(s, g) ==
  LET path == IF s.showLensing THEN LensedPath(s, g) ELSE DirectPath(s, g)
  IN [gpu |-> path.gpu,
      ops |-> <<Op("BeginDrawing", "screen"), Op("ClearBackground", "BLACK")>>
              \o path.ops \o DrawUI(s) \o <<Op("EndDrawing", "screen")>>]

-----------------------------------------------------------------------------
(* One iteration of the main loop, on all the variables it touches *)

World(s, g, t, u, r, tw, ks) ==
  [sim |-> s, gpu |-> g, trace |-> t, upd |-> u, run |-> r, twin |-> tw, keys |-> ks]

NoUpdate ==
  [frameTime |-> 0, camera |-> <<0, 0, 0>>, timeEffects |-> FALSE, before |-> 0,
   dilationBefore |-> 0]
NoRun == [n |-> 0, frameTime |-> 0, base |-> 0]

\* the run of consecutive updates with showTimeEffects off and one frame time
NextRun(r, s, frameTime) ==
  IF s.showTimeEffects THEN NoRun
  ELSE IF r.n > 0 /\ r.frameTime = frameTime
       THEN [r EXCEPT !.n = @ + 1]
       ELSE [n |-> 1, frameTime |-> frameTime, base |-> s.time]

\* mutant: the frame is drawn before the keys are tested
MainLoopBodyDrawFirst(w, frameTime, ks) ==
  LET s1 == UpdateSimulation(w.sim, frameTime)
      s2 == HandleKeys(s1, ks)
      d == Draw(s1, w.gpu)
      t2 == HandleKeys(UpdateSimulation(w.twin, frameTime), ks \ {"L"})
  IN World(s2, d.gpu, d.ops,
           [frameTime |-> frameTime, camera |-> w.sim.camera.position,
            timeEffects |-> w.sim.showTimeEffects, before |-> w.sim.time,
            dilationBefore |-> w.sim.timeDilation],
           NextRun(w.run, w.sim, frameTime), t2, ks)

\* UpdateSimulation, the key tests, then the drawing; the twin run sees the
\* same frame time and keys, KEY_L excepted
MainLoopBody(w, frameTime, ks) ==
  LET s1 == UpdateSimulation(w.sim, frameTime)
      s2 == HandleKeys(s1, ks)
      d == Draw(s2, w.gpu)
      t2 == HandleKeys(UpdateSimulation(w.twin, frameTime), ks \ {"L"})
  IN World(s2, d.gpu, d.ops,
           [frameTime |-> frameTime, camera |-> w.sim.camera.position,
            timeEffects |-> w.sim.showTimeEffects, before |-> w.sim.time,
            dilationBefore |-> w.sim.timeDilation],
           NextRun(w.run, w.sim, frameTime), t2, ks)

RECURSIVE Repeat(_, _, _, _)
Repeat(w, n, frameTime, ks) ==
  IF n = 0 THEN w
  ELSE LET next == MainLoopBody(w, frameTime, ks)
       IN IF next.keys = ks THEN Repeat(next, n - 1, frameTime, ks) ELSE w

Current == World(sim, gpu, trace, upd, run, twin, keys)

Becomes(w) ==
  /\ sim' = w.sim
  /\ gpu' = w.gpu
  /\ trace' = w.trace
  /\ upd' = w.upd
  /\ run' = w.run
  /\ twin' = w.twin
  /\ keys' = w.keys

\* the key states tried in a freely chosen frame: none, each key alone, and
\* two combinations
KeySets == {{}} \cup {{k} : k \in AllKeys} \cup {{"W", "D"}, {"L", "O", "T"}}

\* one frame with any frame time and any keys
FrameWithin(max) ==
  /\ frames < max
  /\ \E frameTime \in FrameTimes, ks \in KeySets :
       Becomes(MainLoopBody(Current, frameTime, ks))
  /\ frames' = frames + 1
  /\ UNCHANGED <<held, probe>>

Frame == FrameWithin(MaxFrames)

\* n frames at 60 frames per second with only KEY_W held, from the initial state
HoldForward ==
  /\ frames = 0
  /\ held = 0
  /\ \E n \in (MaxHold - 2)..MaxHold :
       /\ Becomes(Repeat(Current, n, 167, {"W"}))
       /\ held' = n
  /\ UNCHANGED <<frames, probe>>

\* some of the stars GetRandomValue can produce: at the centre, at distance
\* 4 exactly, just inside and just outside it, and in a corner of the cube
StarPool ==
  <<MakeStar(<<4 * Unit, 0, 0>>, 128),
    MakeStar(<<2 * Unit, -2 * Unit, 3 * Unit>>, 50),
    MakeStar(<<0, 0, 0>>, 255),
    MakeStar(<<-1 * Unit, 2 * Unit, 3 * Unit>>, 77),
    MakeStar(<<-100 * Unit, 100 * Unit, -100 * Unit>>, 200)>>

StarFields == [1..MAX_STARS -> {StarPool[i] : i \in DOMAIN StarPool}]

\* one star field the generator can produce
FixedStars == [i \in 1..MAX_STARS |-> StarPool[((i - 1) % Len(StarPool)) + 1]]

NoProbe == [fn |-> "none"]

InitWith(stars) ==
  /\ sim = InitSimulation(stars)
  /\ twin = InitSimulation(stars)
  /\ gpu = InitGpu
  /\ trace = <<>>
  /\ upd = NoUpdate
  /\ run = NoRun
  /\ keys = {}
  /\ frames = 0
  /\ held = 0
  /\ probe = NoProbe

Init == InitWith(FixedStars)

Next == Frame \/ HoldForward

Spec == Init /\ [][Next]_vars

-----------------------------------------------------------------------------
(* The first frames over every star field of the pool *)

InitScene == \E stars \in StarFields : InitWith(stars)

SceneFrame == FrameWithin(MaxSceneFrames)

NextScene == SceneFrame

SpecScene == InitScene /\ [][NextScene]_vars

-----------------------------------------------------------------------------
(* CalculateTimeDilation on its own: two observers, the second no nearer *)

\* an observer at i half units from the centre, on the z axis or off it
OnAxis(i) == <<0, 0, 50 * i>>
OffAxis(i) == <<30 * i, -40 * i, 0>>

ProbeDilation ==
  /\ probe = NoProbe
  /\ \E i \in 0..MaxDistance, j \in 0..MaxDistance :
       /\ i <= j
       /\ probe' = [fn |-> "CalculateTimeDilation",
                    near |-> OnAxis(i), far |-> OffAxis(j),
                    nearResult |-> CalculateTimeDilation(OnAxis(i), sim.blackHole),
                    farResult |-> CalculateTimeDilation(OffAxis(j), sim.blackHole)]
  /\ UNCHANGED <<sim, gpu, trace, upd, run, twin, keys, frames, held>>

NextDilation == ProbeDilation

SpecDilation == Init /\ [][NextDilation]_vars

-----------------------------------------------------------------------------
(* diskFragmentShader: the discard test and the temperature, radii in       *)
(* thousandths of a unit                                                     *)

\* mutant: a fragment on either bound is discarded too
DiskFragmentOpen(worldPos, u) ==
  LET pos == <<worldPos[1] - u.blackHolePos[1], worldPos[3] - u.blackHolePos[3]>>
      r == ISqrt((pos[1] * pos[1] + pos[2] * pos[2]) * 100)
      innerRadius == u.innerRadius * 10
      outerRadius == u.outerRadius * 10
  IN IF r <= innerRadius \/ r >= outerRadius
     THEN [discard |-> TRUE, temp |-> 0]
     ELSE [discard |-> FALSE,
           temp |-> Sqrtf(One - Div((r - innerRadius) * One, outerRadius - innerRadius))]

DiskFragment(worldPos, u) ==
  LET pos == <<worldPos[1] - u.blackHolePos[1], worldPos[3] - u.blackHolePos[3]>>
      r == ISqrt((pos[1] * pos[1] + pos[2] * pos[2]) * 100)
      innerRadius == u.innerRadius * 10
      outerRadius == u.outerRadius * 10
  IN IF r < innerRadius \/ r > outerRadius
     THEN [discard |-> TRUE, temp |-> 0]
     ELSE [discard |-> FALSE,
           temp |-> Sqrtf(One - Div((r - innerRadius) * One, outerRadius - innerRadius))]

\* a fragment of the top or the bottom cap of the cylinder, under the uniform
\* values the Direct path sets
ShadeDisk ==
  /\ probe = NoProbe
  /\ \E x \in -DiskGrid..DiskGrid, z \in 0..DiskGrid, y \in {-(Unit \div 10), Unit \div 10} :
       probe' = [fn |-> "diskFragmentShader",
                 worldPos |-> <<40 * x, y, 40 * z>>,
                 out |-> DiskFragment(<<40 * x, y, 40 * z>>, DiskUniformValues(sim))]
  /\ UNCHANGED <<sim, gpu, trace, upd, run, twin, keys, frames, held>>

NextDisk == ShadeDisk

SpecDisk == Init /\ [][NextDisk]_vars

-----------------------------------------------------------------------------
(* lensFragmentShader: pixels are integers, lengths and the sampled          *)
(* position are in tenths of a pixel                                         *)

Black == [source |-> "constant", value |-> <<0, 0, 0, One>>]

\* texture(texture0, uv): the colour the offscreen target stores at uv
Texture0(uv) == [source |-> "texture0", value |-> uv]

\* mutant: the original pixel is sampled, not the deflected one
LensFragmentUndeflected(screenPos, u) ==
  LET delta == <<screenPos[1] - u.lensCenter[1], screenPos[2] - u.lensCenter[2]>>
      r == ISqrt((delta[1] * delta[1] + delta[2] * delta[2]) * 100)
  IN IF r > 0
     THEN LET newR == r - Div(u.lensStrength * 100, r)
          IN IF newR > 0 THEN Texture0(<<screenPos[1] * 10, screenPos[2] * 10>>) ELSE Black
     ELSE Black

\* screenPos is fragTexCoord * screenSize
LensFragment(screenPos, u) ==
  LET delta == <<screenPos[1] - u.lensCenter[1], screenPos[2] - u.lensCenter[2]>>
      r == ISqrt((delta[1] * delta[1] + delta[2] * delta[2]) * 100)
  IN IF r > 0
     THEN LET deflection == Div(u.lensStrength * 100, r)
              newR == r - deflection
          IN IF newR > 0
             THEN LET newDelta == <<Div(delta[1] * 10 * newR, r), Div(delta[2] * 10 * newR, r)>>
                      newScreenPos == <<u.lensCenter[1] * 10 + newDelta[1],
                                        u.lensCenter[2] * 10 + newDelta[2]>>
                  IN IF /\ newScreenPos[1] >= 0
                        /\ newScreenPos[1] <= u.screenSize[1] * 10
                        /\ newScreenPos[2] >= 0
                        /\ newScreenPos[2] <= u.screenSize[2] * 10
                     THEN Texture0(newScreenPos)
                     ELSE Black
             ELSE Black
     ELSE Black

\* a grid over the whole quad, and pixels on and next to the circle newR = 0
LensPixels ==
  {<<32 * i, 32 * j>> : i \in 0..32, j \in 0..24}
  \cup {<<612, 384>>, <<572, 464>>, <<512, 284>>, <<452, 304>>,
        <<513, 384>>, <<613, 384>>, <<512, 485>>, <<573, 464>>}

ShadeLens ==
  /\ probe = NoProbe
  /\ \E p \in LensPixels :
       probe' = [fn |-> "lensFragmentShader", screenPos |-> p,
                 finalColor |-> LensFragment(p, LensUniformValues(sim))]
  /\ UNCHANGED <<sim, gpu, trace, upd, run, twin, keys, frames, held>>

NextLens == ShadeLens

SpecLens == Init /\ [][NextLens]_vars

-----------------------------------------------------------------------------
(* Properties *)

\* at least one iteration of the main loop has completed
Ran == frames + held > 0

InitialCamera == InitSimulation(FixedStars).camera.position

SquaredDistance(a, b) ==
  LET v == Vector3Subtract(a, b) IN v[1] * v[1] + v[2] * v[2] + v[3] * v[3]

Abs(x) == IF x >= 0 THEN x ELSE -x

IsDiskUniformSet(e, name) ==
  /\ e.op = "SetShaderValue"
  /\ e.arg.shader = "diskShader"
  /\ e.arg.name = name

\* C1: whenever a frame draws the accretion disk, in the Lensed path as in the
\* Direct path, each of the six disk-shader uniforms has been set earlier in
\* that frame, and the time uniform the draw consumes is sim.time of the frame.
C1_DiskUniformsSetBeforeDraw ==
  \A i \in DOMAIN trace :
    trace[i].op = "DrawCylinderEx" =>
      /\ \A name \in DiskUniformNames :
           \E j \in 1..(i - 1) : IsDiskUniformSet(trace[j], name)
      /\ trace[i].arg.uniforms.time = sim.time

\* C2 as claimed: after every call of UpdateSimulation, with showTimeEffects on
\* or off, timeDilation is CalculateTimeDilation of the camera position at
\* that call.
C2_DilationRecomputedEveryFrame ==
  Ran => sim.timeDilation = CalculateTimeDilation(upd.camera, sim.blackHole)

\* C2 as amended: after a call of UpdateSimulation made with showTimeEffects on,
\* timeDilation is CalculateTimeDilation of the camera position at that call;
\* a call made with showTimeEffects off leaves timeDilation as it was.
C2_DilationRecomputedWhenEffectsOn ==
  Ran => IF upd.timeEffects
         THEN sim.timeDilation = CalculateTimeDilation(upd.camera, sim.blackHole)
         ELSE sim.timeDilation = upd.dilationBefore

\* the last update ran with the effects on, the camera away from its first
\* position, and stored a factor strictly between 0 and 1
C2_Witness ==
  /\ frames > 0
  /\ upd.timeEffects
  /\ upd.camera # InitialCamera
  /\ sim.timeDilation > 0
  /\ sim.timeDilation < One
  /\ sim.timeDilation # upd.dilationBefore

ProbeRadiusSquared ==
  SquaredDistance(<<probe.worldPos[1], 0, probe.worldPos[3]>>,
                  <<sim.blackHole.position[1], 0, sim.blackHole.position[3]>>)

InnerSquared == sim.disk.innerRadius * sim.disk.innerRadius
OuterSquared == sim.disk.outerRadius * sim.disk.outerRadius

\* C3 as claimed: a fragment whose planar radius is strictly between
\* innerRadius and outerRadius is kept, and a fragment whose radius equals
\* either bound or lies outside the interval is discarded.
C3_DiscardedOnAndOutsideBounds ==
  probe.fn = "diskFragmentShader" =>
    (probe.out.discard <=>
       ~(InnerSquared < ProbeRadiusSquared /\ ProbeRadiusSquared < OuterSquared))

\* C3 as amended: a fragment is discarded exactly when its planar radius is
\* below innerRadius or above outerRadius; a fragment whose radius equals
\* either bound is kept.
C3_DiscardedOutsideBoundsOnly ==
  probe.fn = "diskFragmentShader" =>
    (probe.out.discard <=>
       (ProbeRadiusSquared < InnerSquared \/ ProbeRadiusSquared > OuterSquared))

\* a fragment off the axes at radius innerRadius exactly, kept
C3_Witness ==
  /\ probe.fn = "diskFragmentShader"
  /\ ProbeRadiusSquared = InnerSquared
  /\ probe.worldPos[1] # 0
  /\ probe.worldPos[3] # 0
  /\ ~probe.out.discard

\* C4: the run of frames and the same run without any press of KEY_L agree
\* after every frame on time, timeDilation, camera, black hole, disk, stars,
\* showDisk and showTimeEffects: they differ in showLensing at most.
C4_LensingToggleLeavesPhysics ==
  /\ sim.time = twin.time
  /\ sim.timeDilation = twin.timeDilation
  /\ [sim EXCEPT !.showLensing = twin.showLensing] = twin

\* KEY_L was pressed in the last frame, after an approach, and the two runs
\* are in different render paths
C4_Witness ==
  /\ held > 0
  /\ frames > 1
  /\ "L" \in keys
  /\ sim.showLensing # twin.showLensing
  /\ sim.time > 0

C6_TimeNeverDecreases == [][sim'.time >= sim.time]_vars

\* a scaled update with the camera inside the horizon: time stood still
C6_Witness ==
  /\ frames > 0
  /\ upd.timeEffects
  /\ Vector3Distance(upd.camera, sim.blackHole.position) < sim.blackHole.schwarzschildRadius
  /\ sim.time = upd.before
  /\ sim.time > 0

\* the result r at distance d: 0 at or inside the horizon, else in (0, 1] with
\* r * r = 1 - rs / d to within three units of the last digit
DilationAt(d, r) ==
  LET rs == sim.blackHole.schwarzschildRadius
      square == (r * r) \div One
  IN IF d <= rs THEN r = 0
     ELSE /\ 0 < r
          /\ r <= One
          /\ (square - 3) * d <= One * (d - rs)
          /\ One * (d - rs) <= (square + 3) * d

SampledAt(s, p, u) ==
  LET dx == p[1] - u.lensCenter[1]
      dy == p[2] - u.lensCenter[2]
      nx == s[1] - 10 * u.lensCenter[1]
      ny == s[2] - 10 * u.lensCenter[2]
      r2 == dx * dx + dy * dy
      r == ISqrt(r2 * 100)
  IN /\ Abs(nx * dy - ny * dx) <= Abs(dx) + Abs(dy)
     /\ nx * dx + ny * dy >= 0
     /\ Abs(ISqrt(nx * nx + ny * ny) * r - (r2 - u.lensStrength) * 100) <= 5 * (r + 1)
     /\ s[1] >= 0 /\ s[1] <= 10 * u.screenSize[1]
     /\ s[2] >= 0 /\ s[2] <= 10 * u.screenSize[2]

\* C8: a pixel at lensCenter is opaque black; a pixel with newR <= 0, that is
\* with r * r <= lensStrength, is opaque black; any other pixel of the quad
\* gets the colour the offscreen texture stores at radius newR on the same
\* ray, unmodified, and that point is inside the texture.
C8_LensOutput ==
  probe.fn = "lensFragmentShader" =>
    LET u == LensUniformValues(sim)
        dx == probe.screenPos[1] - u.lensCenter[1]
        dy == probe.screenPos[2] - u.lensCenter[2]
        r2 == dx * dx + dy * dy
    IN IF r2 <= u.lensStrength
       THEN probe.finalColor = Black
       ELSE /\ probe.finalColor.source = "texture0"
            /\ SampledAt(probe.finalColor.value, probe.screenPos, u)
            /\ probe.finalColor = Texture0(probe.finalColor.value)

\* a corner pixel of the quad, which samples the texture
C8_Witness ==
  /\ probe.fn = "lensFragmentShader"
  /\ probe.screenPos = <<SCREEN_WIDTH, 0>>
  /\ probe.finalColor.source = "texture0"
  /\ probe.finalColor.value # <<10 * SCREEN_WIDTH, 0>>

DrawsOfStar(i) == {k \in DOMAIN trace : trace[k].op = "DrawCube" /\ trace[k].arg.star = i}

StarIsFar(i) ==
  SquaredDistance(sim.stars[i].position, sim.blackHole.position) >
    4 * sim.blackHole.schwarzschildRadius * sim.blackHole.schwarzschildRadius

StarsDrawn ==
  Ran => \A i \in 1..MAX_STARS :
           /\ Cardinality(DrawsOfStar(i)) = IF StarIsFar(i) THEN 1 ELSE 0
           /\ \A k \in DrawsOfStar(i) :
                /\ trace[k].arg.position = sim.stars[i].position
                /\ trace[k].arg.color = sim.stars[i].color

\* C9: in every frame, in both render paths, star i is drawn exactly once, at
\* its stored position and with its stored colour, if its distance to the
\* black hole centre exceeds 2 * schwarzschildRadius, and is not drawn
\* otherwise; no frame changes a star.
C9_StarsDrawnIffFar == []StarsDrawn /\ [][sim'.stars = sim.stars]_vars

\* a frame of the Direct path with one star at distance 4 exactly, skipped,
\* and one star drawn
C9_Witness ==
  /\ Ran
  /\ ~sim.showLensing
  /\ \E i \in 1..MAX_STARS, j \in 1..MAX_STARS :
       /\ SquaredDistance(sim.stars[i].position, sim.blackHole.position) =
            4 * sim.blackHole.schwarzschildRadius * sim.blackHole.schwarzschildRadius
       /\ DrawsOfStar(i) = {}
       /\ DrawsOfStar(j) # {}

\* the calls of the frame other than the star cubes, the disk uniforms and the text
IsPathCall(e) ==
  /\ e.op \notin {"DrawText", "DrawCube"}
  /\ ~(e.op = "SetShaderValue" /\ e.arg.shader = "diskShader")

PathCalls ==
  LET calls == SelectSeq(trace, IsPathCall)
  IN [k \in 1..Len(calls) |-> calls[k].op]

ExpectedCalls ==
  LET scene == (IF sim.showDisk
                THEN <<"BeginShaderMode", "DrawCylinderEx", "EndShaderMode">>
                ELSE <<>>) \o <<"DrawSphere", "DrawCircle3D">>
  IN IF sim.showLensing
     THEN <<"BeginDrawing", "ClearBackground", "BeginTextureMode", "ClearBackground",
            "BeginMode3D">>
          \o scene
          \o <<"EndMode3D", "EndTextureMode", "SetShaderValue", "SetShaderValue",
               "SetShaderValue", "BeginShaderMode", "DrawTextureRec", "EndShaderMode",
               "EndDrawing">>
     ELSE <<"BeginDrawing", "ClearBackground", "BeginMode3D">>
          \o scene
          \o <<"EndMode3D", "EndDrawing">>

\* every star cube is drawn inside the 3-D projection, before the disk and the hole
StarsFirst ==
  \A k \in DOMAIN trace :
    trace[k].op = "DrawCube" =>
      /\ \E a \in 1..(k - 1) : trace[a].op = "BeginMode3D"
      /\ \A b \in 1..(k - 1) :
           trace[b].op \notin {"BeginShaderMode", "DrawCylinderEx", "DrawSphere",
                               "DrawCircle3D", "EndMode3D"}

LensPass ==
  \A k \in DOMAIN trace :
    /\ (trace[k].op = "DrawTextureRec") =>
         /\ trace[k].arg.texture = "target"
         /\ trace[k].arg.source = <<0, 0, SCREEN_WIDTH, -SCREEN_HEIGHT>>
         /\ trace[k].arg.position = <<0, 0>>
         /\ trace[k].arg.uniforms =
              [lensCenter |-> <<SCREEN_WIDTH \div 2, SCREEN_HEIGHT \div 2>>,
               lensStrength |-> (sim.blackHole.schwarzschildRadius * 5000) \div Unit,
               screenSize |-> <<SCREEN_WIDTH, SCREEN_HEIGHT>>]
         /\ trace[k - 1].op = "BeginShaderMode"
         /\ trace[k - 1].arg = "lensShader"
         /\ trace[k - 2].arg.name = "screenSize"
         /\ trace[k - 3].arg.name = "lensStrength"
         /\ trace[k - 4].arg.name = "lensCenter"
    /\ (trace[k].op \in {"BeginTextureMode", "EndTextureMode"}) => trace[k].arg = "target"

\* C10: every frame takes the render path that showLensing selects once the
\* keys of the frame have been tested, and draws stars, then the disk if
\* showDisk, then the black hole, once: straight to the screen inside the 3-D
\* projection when showLensing is off; when it is on, bind the offscreen
\* target, clear, enter 3-D, scene, exit 3-D, unbind, set lensCenter,
\* lensStrength (= schwarzschildRadius * 5000) and screenSize, bind the lens
\* shader, draw the offscreen texture as a flipped full-viewport quad.
C10_RenderPath ==
  Ran => /\ PathCalls = ExpectedCalls
         /\ StarsFirst
         /\ LensPass

\* KEY_L pressed in the frame itself: the frame is drawn directly, with the disk
C10_Witness ==
  /\ Ran
  /\ "L" \in keys
  /\ ~sim.showLensing
  /\ sim.showDisk
  /\ Len(PathCalls) = 10

====
